---- MODULE Spec2Model ----
(***************************************************************************)
(* Model of the widget construction engine (Widget, parseParams,           *)
(* parseEventListeners, handleEvent), the leaf constructors it dispatches  *)
(* to, and the surface configurator (Window).                              *)
(*                                                                         *)
(* A JavaScript value is a record whose field t is its runtime kind        *)
(* (typeof, with "array", "null", "widget" and "service" told apart).      *)
(***************************************************************************)
EXTENDS Integers, Sequences, FiniteSets, TLC

\* ------------------------------------------------------------------ bounds

\* Scroll deltas range over -MaxDelta..MaxDelta on each axis.
MaxDelta == 1
\* Margin numbers range over 0..MaxMargin.
MaxMargin == 2
\* Margin sequences have 0..MaxMarginLen elements.
MaxMarginLen == 5

\* ------------------------------------------------------------- JS values

Undef == [t |-> "undefined", s |-> "", n |-> 0]
Null == [t |-> "null", s |-> "", n |-> 0]
Str(x) == [t |-> "string", s |-> x, n |-> 0]
Num(k) == [t |-> "number", s |-> "", n |-> k]
Bool(b) == [t |-> "boolean", s |-> "", n |-> IF b THEN 1 ELSE 0]
Fn(name) == [t |-> "function", s |-> name, n |-> 0]

\* JS truthiness of a value: what `if (v)` and `!v` test.
Truthy(v) ==
    CASE v.t = "undefined" -> FALSE
      [] v.t = "null" -> FALSE
      [] v.t = "string" -> v.s # ""
      [] v.t = "number" -> v.n # 0
      [] v.t = "boolean" -> v.n = 1
      [] OTHER -> TRUE

\* A string that the code splits into tokens is a sequence of characters; the
\* values of such a property carry their text in cs.
Chars(text) == [t |-> "string", cs |-> text, n |-> 0]

CUndef == [t |-> "undefined", cs |-> <<>>, n |-> 0]

CNum(k) == [t |-> "number", cs |-> <<>>, n |-> k]

\* String.prototype.split(' '): the pieces between single spaces, empty
\* pieces included.
RECURSIVE SplitFrom(_, _, _)
SplitFrom(cs, i, cur) ==
    IF i > Len(cs) THEN <<cur>>
    ELSE IF cs[i] = " " THEN <<cur>> \o SplitFrom(cs, i + 1, <<>>)
    ELSE SplitFrom(cs, i + 1, Append(cur, cs[i]))

Split(cs) == SplitFrom(cs, 1, <<>>)

\* ----------------------------------------------------------- diagnostics

\* utils.js is not part of the sources at hand: the sinks are modelled from
\* their contract, a non-fatal diagnostic appended to the log.
Diag(sink, msg, ctx) == [sink |-> sink, msg |-> msg, ctx |-> ctx]

error(log, msg, ctx) == Append(log, Diag("error", msg, ctx))

warning(log, msg) == Append(log, Diag("warning", msg, ""))

\* typecheck(name, value, kinds, context): reports when the value's kind is
\* not among the expected kinds; never throws.
typecheck(log, name, v, kinds, ctx) ==
    IF v.t \in kinds THEN log ELSE Append(log, Diag("typecheck", name, ctx))

\* restcheck(rest, context): one diagnostic per leftover key, tagged with the
\* context; never throws.
restcheck(log, rest, ctx) ==
    log \o [i \in 1..Len(rest) |-> Diag("restcheck", rest[i], ctx)]

\* ---------------------------------------------------------- live objects

Families == {"focus", "key", "motion", "scroll", "button"}

\* text of a label built from a template literal: pre ++ arg ++ post
Text(pre, arg, post) == [pre |-> pre, arg |-> arg, post |-> post]

\* A value a construction can hold in `widget`: kind "live" is a toolkit
\* object, "plain" a plain JS object (no toolkit methods), "primitive" a
\* string or boolean, "undefined" and "null" the two empty values. children
\* are the objects appended or overlaid, in order; overlaySets the clip and
\* measure settings made on them; hooks the handlers a leaf constructor
\* connected to the object's own signals.
NewObj(kind, gtype) ==
    [kind |-> kind, gtype |-> gtype, label |-> Text("", "", ""),
     methods |-> {}, classes |-> {},
     halign |-> "DEFAULT", valign |-> "DEFAULT",
     hexpand |-> "DEFAULT", vexpand |-> "DEFAULT",
     sensitive |-> "DEFAULT", visible |-> "DEFAULT",
     tooltip |-> <<>>, styles |-> <<>>, priv |-> {}, conns |-> <<>>,
     orientation |-> "NONE",
     ctrl |-> [f \in Families |-> 0], handlers |-> <<>>,
     children |-> <<>>, overlaySets |-> <<>>, hooks |-> <<>>]

\* the value null
NullObj == [kind |-> "null"]

\* the value undefined
UndefinedObj == [kind |-> "undefined"]

\* new Gtk.Label({ label })
GtkLabel(text) == [NewObj("live", "Label") EXCEPT !.label = text]

\* ------------------------------------------------------------ descriptors

Slots ==
    {"onFocusEnter", "onFocusLeave", "onKeyPressed", "onKeyReleased",
     "onMotion", "onHoverEnter", "onHoverLeave",
     "onScroll", "onScrollUp", "onScrollDown",
     "onButtonPressed", "onButtonReleased"}

\* What a callback slot holds: "absent" (undefined) or a function, named by
\* what it returns: nothing, true, false, or a non-boolean value.
Returns == {"none", "true", "false", "other"}

\* the leaf properties a descriptor may carry, in key order
PropKeyOrder ==
    <<"label", "orientation", "transition", "hscroll", "bogus", "children",
      "overlays", "measure", "clip", "onChange", "onAccept">>

PropKeys == {PropKeyOrder[i] : i \in 1..Len(PropKeyOrder)}

NoProps == [k \in PropKeys |-> Undef]

\* an array of descriptors, the value of `children` and of `overlays`
Arr(items) == [t |-> "array", s |-> "", n |-> 0, items |-> items]

NoList == [present |-> FALSE, items |-> <<>>]

List(items) == [present |-> TRUE, items |-> items]

\* { type } with every other key absent
BaseDesc(type) ==
    [variant |-> "object", raw |-> Undef, type |-> type,
     className |-> CUndef, style |-> Undef,
     halign |-> Undef, valign |-> Undef,
     hexpand |-> Undef, vexpand |-> Undef, sensitive |-> Undef,
     tooltip |-> Undef, visible |-> Undef,
     properties |-> NoList, connections |-> NoList, setup |-> Undef,
     slots |-> [s \in Slots |-> "absent"], props |-> NoProps]

\* a string, undefined or null passed as the descriptor
RawDesc(v) == [BaseDesc(Undef) EXCEPT !.variant = v.t, !.raw = v]

\* a zero-argument function passed as the descriptor; type names what it
\* returns
FactoryDesc(f) == [BaseDesc(f) EXCEPT !.variant = "function"]

\* an already built toolkit object passed as the descriptor
LiveDesc == [BaseDesc(Undef) EXCEPT !.variant = "widget"]

\* the toolkit object of a LiveObject descriptor, built by the caller
ExistingWidget == [NewObj("live", "Existing") EXCEPT !.visible = "TRUE"]

\* a call frame of Widget(params): the descriptor, the position in the
\* function, the local `widget`, the diagnostics emitted so far, the value
\* returned, and the argument of every invocation of `setup` as it was at
\* that moment. enumThrows is the toolkit's answer to an enum property being
\* assigned `undefined`: it throws, or it takes the value. calls counts the
\* invocations of the descriptor's factory function by this call. toggle
\* holds the caller's latest toggleClassName call on the returned object, with
\* the classes the object carried before it. caller is the descriptor object
\* the caller passed, as it is now; d keeps what it was at the call. dispatch
\* holds what the handler of an entry's signal did when the signal was emitted.
NewFrame(d, enumThrows) ==
    [d |-> d, enumThrows |-> enumThrows, pc |-> "resolve",
     widget |-> NullObj, log |-> <<>>, result |-> NullObj, setups |-> <<>>,
     calls |-> 0, toggle |-> <<>>, caller |-> d, dispatch |-> <<>>]

Raise(f) == [f EXCEPT !.pc = "raised"]

Return(f, obj) == [f EXCEPT !.pc = "returned", !.result = obj]

\* `${v}` for the values a descriptor or a type can be
TemplateText(v) ==
    CASE v.t = "string" -> v.s
      [] v.t = "undefined" -> "undefined"
      [] v.t = "null" -> "null"
      [] v.t = "function" -> "function"
      [] OTHER -> "[object Object]"

\* a factory function called with no arguments
CallFactory(fn) ==
    CASE fn.s = "factoryNone" -> UndefinedObj
      [] fn.s = "factoryNull" -> NullObj
      [] OTHER -> NewObj("live", "Custom")

\* ------------------------------------------------------ the registry

\* the keys of the object literal `widgets`
OwnKeys ==
    {"box", "button", "centerbox", "entry", "icon", "label", "overlay",
     "progressbar", "revealer", "scrollable", "slider", "stack", "switch"}

\* widgets.js exports no ProgressBar: the value under that key is undefined
MissingCtor == {"progressbar"}

\* `widgets` is an object literal, so it inherits Object.prototype; these
\* are the inherited members the inputs use
ObjectPrototypeKeys == {"toString", "constructor", "__proto__"}

\* `key in widgets`: own and inherited properties
In(key) == key \in OwnKeys \cup ObjectPrototypeKeys

\* string.toUpperCase() on the tokens the inputs use
toUpperCase(str) ==
    CASE str = "horizontal" -> "HORIZONTAL"
      [] str = "vertical" -> "VERTICAL"
      [] str = "v" -> "V"
      [] str = "h" -> "H"
      [] str = "start" -> "START"
      [] str = "End" -> "END"
      [] str = "none" -> "NONE"
      [] str = "crossfade" -> "CROSSFADE"
      [] str = "automatic" -> "AUTOMATIC"
      [] str = "never" -> "NEVER"
      [] str = "top" -> "TOP"
      [] str = "bogus" -> "BOGUS"
      [] OTHER -> str

Default(v, dflt) == IF v.t = "undefined" THEN dflt ELSE v

\* the keys of `rest`: those present in props and not destructured
Rest(props, recognized) ==
    SelectSeq(PropKeyOrder,
              LAMBDA k : k \notin recognized /\ props[k].t # "undefined")

\* _orientation(str): <<the enum member, the log>>
_orientation(str, log) ==
    LET s1 == IF str.t = "string" /\ str.s = "v" THEN Str("vertical") ELSE str
        s2 == IF s1.t = "string" /\ s1.s = "h" THEN Str("horizontal") ELSE s1
    IN IF s2.t # "string"
         THEN <<"HORIZONTAL", warning(log, "wrong orientation value")>>
         ELSE IF toUpperCase(s2.s) \in {"HORIZONTAL", "VERTICAL"}
                THEN <<toUpperCase(s2.s), log>>
                ELSE <<"UNDEFINED", log>>

\* ------------------------------------------------- leaf constructors

\* what a constructor call yields: the object, the log, and whether it threw
Built(obj, log) == [obj |-> obj, log |-> log, raised |-> FALSE]

Threw(log) == [obj |-> NullObj, log |-> log, raised |-> TRUE]

RECURSIVE RunWidget(_)

\* Label({ type, label, ..., ...rest })
Label(type, props, log) ==
    LET label == Default(props.label, Str(""))
        l1 == typecheck(log, "label", label, {"string"}, type)
        l2 == restcheck(l1, Rest(props, {"label"}), type)
    IN Built(GtkLabel(Text("", label.s, "")), l2)

\* children.forEach(w => box.append(Widget(w))): the objects appended, the
\* log, and whether a nested call or an append threw
RECURSIVE AppendChildren(_, _, _, _, _)
AppendChildren(items, i, objs, log, enumThrows) ==
    IF i > Len(items) THEN [objs |-> objs, log |-> log, raised |-> FALSE]
    ELSE LET Appended(r) ==
                 IF r.pc = "raised" \/ r.result.kind # "live"
                   THEN [objs |-> objs, log |-> r.log, raised |-> TRUE]
                   ELSE AppendChildren(items, i + 1, Append(objs, r.result),
                                       r.log, enumThrows)
         IN Appended(RunWidget([NewFrame(items[i], enumThrows)
                                  EXCEPT !.log = log]))

\* a Box whose children are appended last to first
BoxReversed(type, props, log, enumThrows) ==
    LET orientation == Default(props.orientation, Str("horizontal"))
        children == Default(props.children, Arr(<<>>))
        l1 == typecheck(log, "orientation", orientation, {"string"}, type)
        l2 == typecheck(l1, "children", children, {"array"}, type)
        l3 == restcheck(l2, Rest(props, {"orientation", "children"}), type)
        o == _orientation(orientation, l3)
        items == IF children.t = "array" THEN children.items ELSE <<>>
        Filled(kids) ==
            IF children.t # "array" \/ kids.raised THEN Threw(kids.log)
            ELSE Built([NewObj("live", "Box") EXCEPT !.orientation = o[1],
                                                     !.children = kids.objs],
                       kids.log)
    IN IF o[1] = "UNDEFINED" /\ enumThrows THEN Threw(o[2])
       ELSE Filled(AppendChildren(
                [i \in 1..Len(items) |-> items[Len(items) + 1 - i]],
                1, <<>>, o[2], enumThrows))

\* Box({ type, orientation, homogeneous, children, ...rest }): a constructor
\* property given `undefined` is the toolkit's to refuse or to take
Box(type, props, log, enumThrows) ==
    LET orientation == Default(props.orientation, Str("horizontal"))
        children == Default(props.children, Arr(<<>>))
        l1 == typecheck(log, "orientation", orientation, {"string"}, type)
        l2 == typecheck(l1, "children", children, {"array"}, type)
        l3 == restcheck(l2, Rest(props, {"orientation", "children"}), type)
        o == _orientation(orientation, l3)
        items == IF children.t = "array" THEN children.items ELSE <<>>
        Filled(kids) ==
            IF children.t # "array" \/ kids.raised THEN Threw(kids.log)
            ELSE Built([NewObj("live", "Box") EXCEPT !.orientation = o[1],
                                                     !.children = kids.objs],
                       kids.log)
    IN IF o[1] = "UNDEFINED" /\ enumThrows THEN Threw(o[2])
       ELSE Filled(AppendChildren(items, 1, <<>>, o[2], enumThrows))

\* the descriptor of an overlay without its measure and clip keys
Strip(w) ==
    IF w.variant = "object"
      THEN [w EXCEPT !.props.measure = Undef, !.props.clip = Undef]
      ELSE w

\* overlays.forEach(w => { delete w.measure; delete w.clip; add_overlay(
\* Widget(w)); set_clip_overlay; set_measure_overlay })
RECURSIVE AddOverlays(_, _, _, _, _, _)
AddOverlays(items, i, objs, sets, log, enumThrows) ==
    IF i > Len(items)
      THEN [objs |-> objs, sets |-> sets, log |-> log, raised |-> FALSE]
    ELSE LET w == items[i]
             clip == IF w.props.clip.t = "boolean"
                       THEN <<[child |-> i, set |-> "clip", value |-> w.props.clip.n]>>
                       ELSE <<>>
             measure == IF w.props.measure.t = "boolean"
                          THEN <<[child |-> i, set |-> "measure",
                                  value |-> w.props.measure.n]>>
                          ELSE <<>>
             Added(r) ==
                 IF r.pc = "raised" \/ r.result.kind # "live"
                   THEN [objs |-> objs, sets |-> sets, log |-> r.log,
                         raised |-> TRUE]
                   ELSE AddOverlays(items, i + 1, Append(objs, r.result),
                                    sets \o clip \o measure, r.log, enumThrows)
         IN Added(RunWidget([NewFrame(Strip(w), enumThrows) EXCEPT !.log = log]))

\* Overlay({ type, overlays, child, ...rest }); the inputs carry no `child`
Overlay(type, props, log, enumThrows) ==
    LET overlays == Default(props.overlays, Arr(<<>>))
        l1 == typecheck(log, "children", overlays, {"array"}, type)
        l2 == restcheck(l1, Rest(props, {"overlays"}), type)
        items == IF overlays.t = "array" THEN overlays.items ELSE <<>>
        Filled(r) ==
            IF overlays.t # "array" \/ r.raised THEN Threw(r.log)
            ELSE Built([NewObj("live", "Overlay") EXCEPT !.children = r.objs,
                                                         !.overlaySets = r.sets],
                       r.log)
    IN Filled(AddOverlays(items, 1, <<>>, <<>>, l2, enumThrows))

\* What the call leaves of the caller's descriptor: Overlay deletes two keys
\* of every overlay descriptor it gets to, and the nested calls act likewise
\* on the descriptors they are given.
RECURSIVE CallerAfter(_, _)
RECURSIVE ItemsAfter(_, _, _, _)
ItemsAfter(items, i, strip, enumThrows) ==
    IF i > Len(items) THEN items
    ELSE LET w == IF strip THEN Strip(items[i]) ELSE items[i]
             Left(r, after) ==
                 IF r.pc = "raised" \/ r.result.kind # "live" THEN after
                 ELSE ItemsAfter(after, i + 1, strip, enumThrows)
         IN Left(RunWidget(NewFrame(w, enumThrows)),
                 [items EXCEPT ![i] = CallerAfter(w, enumThrows)])

CallerAfter(d, enumThrows) ==
    IF d.variant # "object" \/ d.type.t # "string" THEN d
    ELSE IF d.type.s = "overlay" /\ d.props.overlays.t = "array"
      THEN [d EXCEPT !.props.overlays.items = ItemsAfter(@, 1, TRUE, enumThrows)]
    ELSE IF d.type.s = "box" /\ d.props.children.t = "array"
              /\ ~(enumThrows /\ _orientation(Default(d.props.orientation,
                                                       Str("horizontal")),
                                               <<>>)[1] = "UNDEFINED")
      THEN [d EXCEPT !.props.children.items = ItemsAfter(@, 1, FALSE, enumThrows)]
    ELSE d

\* Stack({ type, items, ..., transition, ...rest }): transition.toUpperCase()
\* throws on a non-string; the catch block then calls `error`, which there is
\* the caught exception, not a function, and that TypeError leaves Stack.
Stack(type, props, log) ==
    LET transition == Default(props.transition, Str("none"))
        l1 == typecheck(log, "transition", transition, {"string"}, type)
        l2 == restcheck(l1, Rest(props, {"transition"}), type)
    IN IF transition.t # "string" THEN Threw(l2)
       ELSE Built(NewObj("live", "Stack"), l2)

\* Scrollable({ type, child, hscroll, vscroll, ...rest }): as Stack, the
\* catch block calls the caught exception.
Scrollable(type, props, log) ==
    LET hscroll == Default(props.hscroll, Str("automatic"))
        l1 == typecheck(log, "hscroll", hscroll, {"string"}, type)
        l2 == restcheck(l1, Rest(props, {"hscroll"}), type)
    IN IF hscroll.t # "string" THEN Threw(l2)
       ELSE Built(NewObj("live", "ScrolledWindow"), l2)

\* Slider({ type, inverted, orientation, ..., ...rest }): the scale is built
\* by a nested Widget call whose descriptor has a factory type and an
\* onScroll callback that returns nothing.
Slider(type, props, log, enumThrows) ==
    LET orientation == Default(props.orientation, Str("horizontal"))
        l1 == typecheck(log, "orientation", orientation, {"string"}, type)
        l2 == restcheck(l1, Rest(props, {"orientation"}), type)
        inner == [BaseDesc(Fn("scale")) EXCEPT !.slots["onScroll"] = "none"]
        o == _orientation(orientation, l2)
        Scaled(r) ==
            IF r.pc = "raised" THEN Threw(r.log)
            ELSE Built([r.result EXCEPT !.gtype = "Scale", !.orientation = o[1]],
                       r.log)
    IN IF o[1] = "UNDEFINED" /\ enumThrows THEN Threw(o[2])
       ELSE Scaled(RunWidget([NewFrame(inner, enumThrows) EXCEPT !.log = o[2]]))

\* `if (onChange)`: a function, or a string that is not empty
Given(v) == v.t = "function" \/ (v.t = "string" /\ v.cs # <<>>)

\* Entry({ type, text, ..., onChange, onAccept, ...rest }): each handler
\* connected keeps both slots in its closure
Entry(type, props, log) ==
    LET onChange == Default(props.onChange, Chars(<<>>))
        onAccept == Default(props.onAccept, Chars(<<>>))
        l1 == typecheck(log, "onChange", onChange, {"string", "function"}, type)
        l2 == typecheck(l1, "onAccept", onAccept, {"string", "function"}, type)
        l3 == restcheck(l2, Rest(props, {"onChange", "onAccept"}), type)
        activate == IF Given(onAccept)
                      THEN <<[signal |-> "activate", onChange |-> onChange,
                              onAccept |-> onAccept]>>
                      ELSE <<>>
        notify == IF Given(onChange)
                    THEN <<[signal |-> "notify::text", onChange |-> onChange,
                            onAccept |-> onAccept]>>
                    ELSE <<>>
    IN Built([NewObj("live", "Entry") EXCEPT !.hooks = activate \o notify], l3)

\* command.replace(/\{\}/g, text) on a command given token by token
Replace(cs, text) == [i \in 1..Len(cs) |-> IF cs[i] = "{}" THEN text ELSE cs[i]]

\* what a handler does: calls a function with (entry, text), runs a command,
\* or fails with a TypeError for calling a string or for a function having
\* no `replace`
Called(slot, fn, text) ==
    [slot |-> slot, via |-> "callback", fn |-> fn.s, text |-> text, cmd |-> <<>>]

Ran(slot, cmd, text) ==
    [slot |-> slot, via |-> "runCmd", fn |-> "", text |-> text,
     cmd |-> Replace(cmd.cs, text)]

Failed(slot, text) ==
    [slot |-> slot, via |-> "TypeError", fn |-> "", text |-> text, cmd |-> <<>>]

\* the two handlers of Entry, lines 256-266: both choose by `typeof onAccept`
EntryHandler(hook, text) ==
    IF hook.signal = "activate"
      THEN IF hook.onAccept.t = "function" THEN Called("onAccept", hook.onAccept, text)
           ELSE Ran("onAccept", hook.onAccept, text)
      ELSE IF hook.onAccept.t = "function"
             THEN IF hook.onChange.t = "function"
                    THEN Called("onChange", hook.onChange, text)
                    ELSE Failed("onChange", text)
             ELSE IF hook.onChange.t = "string"
                    THEN Ran("onChange", hook.onChange, text)
                    ELSE Failed("onChange", text)

\* widgets[type]({ type, ...props })
CallRegistry(key, props, log, enumThrows) ==
    CASE key = "label" -> Label(key, props, log)
      [] key = "box" -> Box(key, props, log, enumThrows)
      [] key = "overlay" -> Overlay(key, props, log, enumThrows)
      [] key = "entry" -> Entry(key, props, log)
      [] key = "stack" -> Stack(key, props, log)
      [] key = "scrollable" -> Scrollable(key, props, log)
      [] key = "slider" -> Slider(key, props, log, enumThrows)
      [] key \in MissingCtor -> Threw(log)
      [] key = "toString" ->
           Built([kind |-> "primitive", value |-> "[object Object]"], log)
      [] key = "constructor" -> Built(NewObj("plain", "Object"), log)
      [] key = "__proto__" -> Threw(log)

\* ------------------------------------------------------- parseParams

\* whether a method of the toolkit can be called on the value
HasMethods(w) == w.kind = "live"

\* whether a property can be assigned on the value (module code is strict:
\* assigning on undefined, null or a primitive throws)
Assignable(w) == w.kind \in {"live", "plain"}

FlagOf(v) == IF v.n = 1 THEN "TRUE" ELSE "FALSE"

AlignMembers == {"FILL", "START", "END", "CENTER", "BASELINE"}

\* widget.<attr> = Gtk.Align[token.toUpperCase()] inside try/catch(warning):
\* <<the attribute afterwards, the log>>
AlignStep(f, cur, v, msg) ==
    IF v.t # "string" THEN <<cur, f.log>>
    ELSE IF toUpperCase(v.s) \in AlignMembers THEN <<toUpperCase(v.s), f.log>>
    ELSE IF f.widget.kind = "live" /\ f.enumThrows
           THEN <<cur, warning(f.log, msg)>>
           ELSE <<"UNDEFINED", f.log>>

\* setStyle(widget, css): one provider holding `* { css }` at user priority
setStyle(w, css) ==
    [w EXCEPT !.styles =
        Append(@, [selector |-> "*", body |-> css, priority |-> "USER"])]

\* a toggleClassName with the two branches exchanged
toggleClassNameInverted(w, className, condition) ==
    LET present == IF condition.t = "undefined" THEN Bool(TRUE) ELSE condition
    IN IF Truthy(present)
         THEN [w EXCEPT !.classes = @ \ {className}]
         ELSE [w EXCEPT !.classes = @ \cup {className}]

\* toggleClassName(widget, className, condition = true): add_css_class or
\* remove_css_class on the object's set of classes
toggleClassName(w, className, condition) ==
    LET present == IF condition.t = "undefined" THEN Bool(TRUE) ELSE condition
    IN IF Truthy(present)
         THEN [w EXCEPT !.classes = @ \cup {className}]
         ELSE [w EXCEPT !.classes = @ \ {className}]

\* the non-empty tokens of className.split(' '), in order
Tokens(className) == SelectSeq(Split(className.cs), LAMBDA cn : cn # <<>>)

\* a registration that takes a numeric source for a period only if non-zero
ConnectTruthyPeriod(w, c) ==
    LET reg ==
          CASE c.src.t = "string" ->
                 [via |-> "signal", name |-> c.src.s, period |-> 0,
                  cb |-> c.cb, event |-> ""]
            [] c.src.t = "number" /\ c.src.n # 0 ->
                 [via |-> "interval", name |-> "", period |-> c.src.n,
                  cb |-> c.cb, event |-> ""]
            [] OTHER ->
                 [via |-> "service", name |-> c.src.s, period |-> 0,
                  cb |-> c.cb, event |-> c.event]
    IN [w EXCEPT !.conns = Append(@, reg)]

\* one registration per Connection Triple
Connect(w, c) ==
    LET reg ==
          CASE c.src.t = "string" ->
                 [via |-> "signal", name |-> c.src.s, period |-> 0,
                  cb |-> c.cb, event |-> ""]
            [] c.src.t = "number" ->
                 [via |-> "interval", name |-> "", period |-> c.src.n,
                  cb |-> c.cb, event |-> ""]
            [] OTHER ->
                 [via |-> "service", name |-> c.src.s, period |-> 0,
                  cb |-> c.cb, event |-> c.event]
    IN [w EXCEPT !.conns = Append(@, reg)]

RECURSIVE ConnectAll(_, _, _)
ConnectAll(w, items, i) ==
    IF i > Len(items) THEN w ELSE ConnectAll(Connect(w, items[i]), items, i + 1)

\* widget[`_${key}`] = value for each pair, later pairs overwriting
RECURSIVE AssignAll(_, _, _)
AssignAll(w, items, i) ==
    IF i > Len(items) THEN w
    ELSE AssignAll(
           [w EXCEPT !.priv =
               {e \in @ : e.key # items[i].key}
                 \cup {[prefix |-> "_", key |-> items[i].key,
                        value |-> items[i].value]}],
           items, i + 1)

\* one statement group of parseParams, named by what it does
ParamStep(f, step) ==
    LET d == f.d
        w == f.widget
        type == TemplateText(d.type)
        visible == Default(d.visible, Bool(TRUE))
    IN
    CASE step = "check" ->
           LET l1 == typecheck(f.log, "className", d.className,
                               {"string", "undefined"}, type)
               l2 == typecheck(l1, "style", d.style, {"string", "undefined"}, type)
               l3 == typecheck(l2, "sensitive", d.sensitive,
                               {"boolean", "undefined"}, type)
               l4 == typecheck(l3, "tooltip", d.tooltip, {"string", "undefined"}, type)
               l5 == typecheck(l4, "halign", d.halign, {"string", "undefined"}, type)
               l6 == typecheck(l5, "valign", d.valign, {"string", "undefined"}, type)
               l7 == typecheck(l6, "hexpand", d.hexpand,
                               {"boolean", "undefined"}, type)
               l8 == typecheck(l7, "vexpand", d.vexpand,
                               {"boolean", "undefined"}, type)
           IN [f EXCEPT !.log = typecheck(l8, "visible", visible, {"boolean"}, type)]
      [] step = "methods" ->
           IF Assignable(w)
             THEN [f EXCEPT !.widget.methods = @ \cup {"setStyle", "toggleClassName"}]
             ELSE Raise(f)
      [] step = "className" ->
           IF d.className.t # "string" \/ Tokens(d.className) = <<>> THEN f
           ELSE IF ~HasMethods(w) THEN Raise(f)
           ELSE [f EXCEPT !.widget.classes =
                    @ \cup {Tokens(d.className)[i] : i \in 1..Len(Tokens(d.className))}]
      [] step = "halign" ->
           LET r == AlignStep(f, w.halign, d.halign, "wrong halign value")
           IN [f EXCEPT !.widget.halign = r[1], !.log = r[2]]
      [] step = "valign" ->
           LET r == AlignStep(f, w.valign, d.valign, "wrong valign value")
           IN [f EXCEPT !.widget.valign = r[1], !.log = r[2]]
      [] step = "flags" ->
           [f EXCEPT
              !.widget.hexpand = IF d.hexpand.t = "boolean" THEN FlagOf(d.hexpand) ELSE @,
              !.widget.vexpand = IF d.vexpand.t = "boolean" THEN FlagOf(d.vexpand) ELSE @,
              !.widget.sensitive =
                  IF d.sensitive.t = "boolean" THEN FlagOf(d.sensitive) ELSE @]
      [] step = "tooltip" ->
           IF d.tooltip.t # "string" THEN f
           ELSE IF ~HasMethods(w) THEN Raise(f)
           ELSE [f EXCEPT !.widget.tooltip = Append(@, d.tooltip.s)]
      [] step = "style" ->
           IF d.style.t # "string" THEN f
           ELSE IF ~HasMethods(w) THEN Raise(f)
           ELSE [f EXCEPT !.widget = setStyle(@, d.style.s)]
      [] step = "visible" ->
           IF visible.t = "boolean"
             THEN [f EXCEPT !.widget.visible = FlagOf(visible)]
             ELSE f
      [] step = "properties" ->
           IF d.properties.present
             THEN [f EXCEPT !.widget = AssignAll(@, d.properties.items, 1)]
             ELSE f
      [] step = "connections" ->
           IF ~d.connections.present THEN f
           ELSE IF ~HasMethods(w)
                   /\ \E i \in 1..Len(d.connections.items) :
                         d.connections.items[i].src.t = "string"
                  THEN Raise(f)
           ELSE [f EXCEPT !.widget = ConnectAll(@, d.connections.items, 1)]
      [] step = "setup" ->
           IF d.setup.t = "function"
             THEN [f EXCEPT !.setups = Append(@, f.widget)]
             ELSE f

\* the statement groups with setup moved ahead of the declarative ones
ParseParamsOrderSetupFirst ==
    <<"check", "methods", "setup", "className", "halign", "valign", "flags",
      "tooltip", "style", "visible", "properties", "connections">>

\* the statement groups without the two helper assignments
ParseParamsOrderNoMethods ==
    <<"check", "className", "halign", "valign", "flags", "tooltip", "style",
      "visible", "properties", "connections", "setup">>

\* the statement groups of parseParams in source order
ParseParamsOrder ==
    <<"check", "methods", "className", "halign", "valign", "flags", "tooltip",
      "style", "visible", "properties", "connections", "setup">>

\* a thrown exception skips the statements after it
RECURSIVE RunSteps(_, _, _)
RunSteps(f, steps, i) ==
    IF i > Len(steps) \/ f.pc = "raised" THEN f
    ELSE RunSteps(ParamStep(f, steps[i]), steps, i + 1)

parseParams(f) == RunSteps(f, ParseParamsOrder, 1)

\* -------------------------------------------------- parseEventListeners

\* the controller families in the order parseEventListeners handles them
FamilyOrder == <<"focus", "key", "motion", "scroll", "button">>

\* per family, the slots in the order their handlers are connected, each
\* with the signal it is connected to
FamilySlots(fam) ==
    CASE fam = "focus" ->
           <<[slot |-> "onFocusEnter", signal |-> "enter"],
             [slot |-> "onFocusLeave", signal |-> "leave"]>>
      [] fam = "key" ->
           <<[slot |-> "onKeyPressed", signal |-> "key-pressed"],
             [slot |-> "onKeyReleased", signal |-> "key-released"]>>
      [] fam = "motion" ->
           <<[slot |-> "onMotion", signal |-> "motion"],
             [slot |-> "onHoverLeave", signal |-> "leave"],
             [slot |-> "onHoverEnter", signal |-> "enter"]>>
      [] fam = "scroll" ->
           <<[slot |-> "onScroll", signal |-> "scroll"],
             [slot |-> "onScrollUp", signal |-> "scroll"],
             [slot |-> "onScrollDown", signal |-> "scroll"]>>
      [] fam = "button" ->
           <<[slot |-> "onButtonPressed", signal |-> "event"],
             [slot |-> "onButtonReleased", signal |-> "event"]>>

\* `if (onA || onB ...)`: a slot holding a function is truthy
Populated(slots, fam) ==
    \E i \in 1..Len(FamilySlots(fam)) : slots[FamilySlots(fam)[i].slot] # "absent"

\* the handlers one family block connects, on controller number ctl of that
\* family
FamilyHandlers(slots, fam, ctl) ==
    LET wanted == SelectSeq(FamilySlots(fam), LAMBDA e : slots[e.slot] # "absent")
    IN [i \in 1..Len(wanted) |->
          [family |-> fam, ctl |-> ctl, signal |-> wanted[i].signal,
           slot |-> wanted[i].slot, returns |-> slots[wanted[i].slot]]]

\* a block that makes a controller for every populated slot of the family
FamilyStepPerSlot(f, fam) ==
    IF ~Populated(f.d.slots, fam) THEN f
    ELSE IF ~HasMethods(f.widget) THEN Raise(f)
    ELSE LET hs == FamilyHandlers(f.d.slots, fam, 0)
         IN [f EXCEPT
               !.widget.ctrl[fam] = @ + Len(hs),
               !.widget.handlers =
                   @ \o [i \in 1..Len(hs) |->
                           [hs[i] EXCEPT !.ctl = f.widget.ctrl[fam] + i]]]

\* one `if (...) { new controller; add_controller; connect... }` block
FamilyStep(f, fam) ==
    IF ~Populated(f.d.slots, fam) THEN f
    ELSE IF ~HasMethods(f.widget) THEN Raise(f)
    ELSE [f EXCEPT
            !.widget.ctrl[fam] = @ + 1,
            !.widget.handlers =
                @ \o FamilyHandlers(f.d.slots, fam, f.widget.ctrl[fam] + 1)]

RECURSIVE RunFamilies(_, _)
RunFamilies(f, i) ==
    IF i > Len(FamilyOrder) \/ f.pc = "raised" THEN f
    ELSE RunFamilies(FamilyStep(f, FamilyOrder[i]), i + 1)

parseEventListeners(f) == RunFamilies(f, 1)

\* ---------------------------------------------------------------- Widget

\* a Resolve that sends a function descriptor's result through the passes
ResolveIntoPasses(f) ==
    LET d == f.d IN
    IF d.variant \in {"undefined", "null", "string"} /\ ~Truthy(d.raw)
      THEN Return([f EXCEPT !.log = error(@, "Widget from null/undefined", "")],
                  GtkLabel(Text("error widget from: \"", TemplateText(d.raw), "\"")))
    ELSE IF d.variant = "string" THEN Return(f, GtkLabel(Text("", d.raw.s, "")))
    ELSE IF d.variant = "function"
      THEN [f EXCEPT !.calls = @ + 1, !.widget = CallFactory(d.type),
                     !.pc = "parseParams"]
    ELSE IF d.variant = "widget" THEN Return(f, ExistingWidget)
    ELSE [f EXCEPT !.pc = "build"]

\* Widget, lines 289-301: the descriptor's variant
Resolve(f) ==
    LET d == f.d IN
    IF d.variant \in {"undefined", "null", "string"} /\ ~Truthy(d.raw)
      THEN Return([f EXCEPT !.log = error(@, "Widget from null/undefined", "")],
                  GtkLabel(Text("error widget from: \"", TemplateText(d.raw), "\"")))
    ELSE IF d.variant = "string" THEN Return(f, GtkLabel(Text("", d.raw.s, "")))
    ELSE IF d.variant = "function"
      THEN Return([f EXCEPT !.calls = @ + 1], CallFactory(d.type))
    ELSE IF d.variant = "widget" THEN Return(f, ExistingWidget)
    ELSE [f EXCEPT !.pc = "build"]

\* the two passes with the event pass first
WidgetOrderEventsFirst == <<"parseEventListeners", "parseParams">>

\* the two passes over the built object, in call order
WidgetOrder == <<"parseParams", "parseEventListeners">>

\* Widget, lines 303-324: obtain the object from the factory or the registry
Build(f) ==
    LET type == f.d.type
        w1 == IF type.t = "function" THEN CallFactory(type) ELSE NullObj
        n == IF type.t = "function" THEN f.calls + 1 ELSE f.calls
        Obtained(r, c) ==
            IF r.raised
              THEN Raise([f EXCEPT !.log = r.log, !.calls = n, !.caller = c])
            ELSE IF r.obj.kind = "null"
              THEN Return([f EXCEPT !.log = error(r.log,
                                                  "There is no widget with type",
                                                  TemplateText(type)),
                                    !.calls = n],
                          GtkLabel(Text("", TemplateText(type), " doesn't exist")))
            ELSE [f EXCEPT !.widget = r.obj, !.log = r.log, !.calls = n,
                           !.caller = c, !.pc = WidgetOrder[1]]
    IN IF type.t = "string" /\ In(type.s)
         THEN Obtained(CallRegistry(type.s, f.d.props, f.log, f.enumThrows),
                       CallerAfter(f.d, f.enumThrows))
         ELSE Obtained(Built(w1, f.log), f.caller)

\* Widget, lines 326-339: one pass, then the next one or the return
Pass(f) ==
    LET i == CHOOSE k \in 1..Len(WidgetOrder) : WidgetOrder[k] = f.pc
        Passed(g) ==
            IF g.pc = "raised" THEN g
            ELSE IF i < Len(WidgetOrder) THEN [g EXCEPT !.pc = WidgetOrder[i + 1]]
            ELSE Return(g, g.widget)
    IN Passed(IF f.pc = "parseParams" THEN parseParams(f)
              ELSE parseEventListeners(f))

Step(f) ==
    CASE f.pc = "resolve" -> Resolve(f)
      [] f.pc = "build" -> Build(f)
      [] OTHER -> Pass(f)

Done(f) == f.pc \in {"returned", "raised"}

\* a nested call, run to its end
RunWidget(f) == IF Done(f) THEN f ELSE RunWidget(Step(f))

\* ------------------------------------------------------- event dispatch

\* a handleEvent that hands back false for every non-boolean
handleEventElseFalse(returns) == returns = "true"

\* handleEvent(callback, ...args): the callback's boolean, else true
handleEvent(returns) ==
    IF returns \in {"true", "false"} THEN returns = "true" ELSE TRUE

\* the condition under which a handler calls its callback
Matches(slot, ev) ==
    CASE slot = "onScrollUp" -> ev.dy < 0 \/ ev.dx < 0
      [] slot = "onScrollDown" -> ev.dy > 0 \/ ev.dx > 0
      [] slot = "onButtonPressed" -> ev.etype = "BUTTON_PRESS"
      [] slot = "onButtonReleased" -> ev.etype = "BUTTON_RELEASE"
      [] OTHER -> TRUE

\* the value a handler returns when its filter does not match the event
NoMatch == FALSE

\* one handler called with one event: whether the callback ran, and the
\* value handed back to the controller
RunHandler(h, ev) ==
    IF Matches(h.slot, ev)
      THEN [slot |-> h.slot, returns |-> h.returns, invoked |-> TRUE,
            ret |-> handleEvent(h.returns)]
      ELSE [slot |-> h.slot, returns |-> h.returns, invoked |-> FALSE,
            ret |-> NoMatch]

\* The toolkit's emission of a signal on one controller: the handlers run in
\* connection order, and a handler returning true ends the emission.
RECURSIVE EmitFrom(_, _, _)
EmitFrom(hs, ev, i) ==
    IF i > Len(hs) THEN <<>>
    ELSE LET r == RunHandler(hs[i], ev)
         IN IF r.ret THEN <<r>> ELSE <<r>> \o EmitFrom(hs, ev, i + 1)

\* the handlers of one controller for one signal, in connection order
HandlersOf(w, fam, ctl, signal) ==
    SelectSeq(w.handlers,
              LAMBDA h : h.family = fam /\ h.ctl = ctl /\ h.signal = signal)

Emission(w, ev, ctl) ==
    [ev |-> ev, ctl |-> ctl,
     runs |-> EmitFrom(HandlersOf(w, ev.family, ctl, ev.signal), ev, 1)]

Event(fam, signal, dx, dy, etype) ==
    [family |-> fam, signal |-> signal, dx |-> dx, dy |-> dy, etype |-> etype]

NoEvent == Event("none", "", 0, 0, "")

NoEmission == [ev |-> NoEvent, ctl |-> 0, runs |-> <<>>]

\* the events the toolkit delivers to the controllers
Events ==
    {Event("focus", sig, 0, 0, "") : sig \in {"enter", "leave"}}
      \cup {Event("key", sig, 0, 0, "") : sig \in {"key-pressed", "key-released"}}
      \cup {Event("motion", sig, 0, 0, "") : sig \in {"motion", "enter", "leave"}}
      \cup {Event("scroll", "scroll", dx, dy, "") :
              dx \in -MaxDelta..MaxDelta, dy \in -MaxDelta..MaxDelta}
      \cup {Event("button", "event", 0, 0, et) :
              et \in {"BUTTON_PRESS", "BUTTON_RELEASE", "MOTION_NOTIFY"}}

\* ---------------------------------------------------------------- Window

\* a margin value: absent, a number n, or an array of numbers
MUndef == [t |-> "undefined", n |-> 0, items |-> <<>>]

MNum(k) == [t |-> "number", n |-> k, items |-> <<>>]

MArr(items) == [t |-> "array", n |-> 0, items |-> items]

NoChild == [present |-> FALSE, d |-> BaseDesc(Undef)]

Child(d) == [present |-> TRUE, d |-> d]

\* a Window descriptor with every key absent
BaseWin ==
    [name |-> Undef, anchor |-> CUndef, margin |-> MUndef, layer |-> Undef,
     exclusive |-> Undef, focusable |-> Undef, child |-> NoChild,
     className |-> CUndef, style |-> Undef, monitor |-> Undef,
     visible |-> Undef, dialog |-> Undef, setup |-> Undef, rest |-> <<>>]

\* the window under construction and the effects of the call so far
NewWin(wd) ==
    [pc |-> "running", d |-> wd, gtype |-> "", methods |-> {}, anchors |-> <<>>,
     margins |-> <<>>, layer |-> "DEFAULT", exclusive |-> FALSE,
     monitor |-> "DEFAULT", classes |-> {}, styles |-> <<>>,
     child |-> NullObj, keyboard |-> "DEFAULT", visible |-> "DEFAULT",
     setups |-> 0, log |-> <<>>]

\* no Window call at hand
NoWin == [pc |-> "none"]

\* the monitors of the display
MonitorCount == 1

UpperChar(c) ==
    CASE c = "t" -> "T" [] c = "o" -> "O" [] c = "p" -> "P" [] c = "l" -> "L"
      [] c = "e" -> "E" [] c = "f" -> "F" [] c = "r" -> "R" [] c = "i" -> "I"
      [] c = "g" -> "G" [] c = "h" -> "H" [] c = "b" -> "B" [] c = "m" -> "M"
      [] c = "x" -> "X" [] OTHER -> c

UpperChars(cs) == [i \in 1..Len(cs) |-> UpperChar(cs[i])]

RECURSIVE TrimLeft(_)
TrimLeft(cs) ==
    IF cs # <<>> /\ Head(cs) = " " THEN TrimLeft(Tail(cs)) ELSE cs

RECURSIVE TrimRight(_)
TrimRight(cs) ==
    IF cs # <<>> /\ cs[Len(cs)] = " "
      THEN TrimRight(SubSeq(cs, 1, Len(cs) - 1)) ELSE cs

\* String.prototype.trim()
Trim(cs) == TrimRight(TrimLeft(cs))

EdgeMembers ==
    {<<"T", "O", "P">>, <<"R", "I", "G", "H", "T">>,
     <<"B", "O", "T", "T", "O", "M">>, <<"L", "E", "F", "T">>}

LayerMembers == {"BACKGROUND", "BOTTOM", "TOP", "OVERLAY"}

\* anchor.trim().split(' ').forEach(side => try set_anchor catch warning)
RECURSIVE AnchorAll(_, _, _, _)
AnchorAll(w, sides, i, enumThrows) ==
    IF i > Len(sides) THEN w
    ELSE LET edge == UpperChars(sides[i])
             w1 == IF edge \in EdgeMembers
                     THEN [w EXCEPT !.anchors = Append(@, edge)]
                   ELSE IF enumThrows
                     THEN [w EXCEPT !.log = warning(@, "wrong anchor value")]
                   ELSE [w EXCEPT !.anchors = Append(@, <<"undefined">>)]
         IN AnchorAll(w1, sides, i + 1, enumThrows)

\* the [side, index] pairs chosen by the switch on margin.length
MarginPlan(len) ==
    CASE len = 1 -> <<<<"TOP", 1>>, <<"RIGHT", 1>>, <<"BOTTOM", 1>>, <<"LEFT", 1>>>>
      [] len = 2 -> <<<<"TOP", 1>>, <<"RIGHT", 2>>, <<"BOTTOM", 1>>, <<"LEFT", 2>>>>
      [] len = 3 -> <<<<"TOP", 1>>, <<"RIGHT", 2>>, <<"BOTTOM", 3>>, <<"LEFT", 2>>>>
      [] len = 4 -> <<<<"TOP", 1>>, <<"RIGHT", 2>>, <<"BOTTOM", 3>>, <<"LEFT", 4>>>>
      [] OTHER -> <<>>

\* `if (margin)`: a number is truthy unless 0, an array always
MarginTruthy(m) == IF m.t = "number" THEN m.n # 0 ELSE m.t = "array"

\* Window, lines 79-104: the set_margin calls, in order
MarginCalls(m) ==
    IF ~MarginTruthy(m) THEN <<>>
    ELSE LET items == IF m.t = "number" THEN <<m.n>> ELSE m.items
             plan == MarginPlan(Len(items))
         IN [i \in 1..Len(plan) |->
               [edge |-> plan[i][1], value |-> items[plan[i][2]]]]

\* one statement group of Window, named by what it does
WinStep(w, wd, step, enumThrows) ==
    LET anchor == IF wd.anchor.t = "undefined" THEN Chars(<<>>) ELSE wd.anchor
        margin == IF wd.margin.t = "undefined" THEN MArr(<<>>) ELSE wd.margin
        layer == Default(wd.layer, Str("top"))
        className == IF wd.className.t = "undefined" THEN Chars(<<>>)
                     ELSE wd.className
        style == Default(wd.style, Str(""))
        visible == Default(wd.visible, Bool(TRUE))
    IN
    CASE step = "check" ->
           LET l1 == typecheck(w.log, "name", Default(wd.name, Str("gtk-layer-shell")),
                               {"string"}, "window")
               l2 == typecheck(l1, "anchor", anchor, {"string"}, "window")
               l3 == typecheck(l2, "margin", margin, {"number", "array"}, "window")
               l4 == typecheck(l3, "layer", layer, {"string"}, "window")
               l5 == typecheck(l4, "exclusive", Default(wd.exclusive, Bool(FALSE)),
                               {"boolean"}, "window")
               l6 == typecheck(l5, "focusable", Default(wd.focusable, Bool(FALSE)),
                               {"boolean"}, "window")
               l7 == typecheck(l6, "className", className, {"string"}, "window")
               l8 == typecheck(l7, "monitor", wd.monitor,
                               {"number", "undefined"}, "window")
           IN [w EXCEPT !.log = restcheck(l8, wd.rest, "window")]
      [] step = "create" ->
           [w EXCEPT !.gtype = IF Truthy(wd.dialog) THEN "Dialog" ELSE "Window",
                     !.methods = {"setStyle", "toggleClassName"}]
      [] step = "anchor" ->
           IF anchor.t = "string" /\ anchor.cs # <<>>
             THEN AnchorAll(w, Split(Trim(anchor.cs)), 1, enumThrows)
           ELSE IF anchor.t = "number" /\ anchor.n # 0
             THEN [w EXCEPT !.pc = "raised"]
           ELSE w
      [] step = "margin" -> [w EXCEPT !.margins = MarginCalls(margin)]
      [] step = "layer" ->
           IF layer.t # "string" THEN [w EXCEPT !.pc = "raised"]
           ELSE IF toUpperCase(layer.s) \in LayerMembers
             THEN [w EXCEPT !.layer = toUpperCase(layer.s)]
           ELSE IF enumThrows THEN [w EXCEPT !.pc = "raised"]
           ELSE [w EXCEPT !.layer = "UNDEFINED"]
      [] step = "exclusive" ->
           IF Truthy(wd.exclusive) THEN [w EXCEPT !.exclusive = TRUE] ELSE w
      [] step = "monitor" ->
           IF wd.monitor.t # "number" THEN w
           ELSE IF wd.monitor.n \in 0..(MonitorCount - 1)
             THEN [w EXCEPT !.monitor = "SET"]
           ELSE [w EXCEPT !.log = warning(@, "Coulnd not find monitor with id")]
      [] step = "className" ->
           IF className.t = "string"
             THEN [w EXCEPT !.classes =
                      @ \cup {Tokens(className)[i] : i \in 1..Len(Tokens(className))}]
             ELSE w
      [] step = "style" ->
           IF Truthy(style)
             THEN [w EXCEPT !.styles =
                      Append(@, [selector |-> "*", body |-> style.s,
                                 priority |-> "USER"])]
             ELSE w
      [] step = "child" ->
           IF ~wd.child.present THEN w
           ELSE LET r == RunWidget([NewFrame(wd.child.d, enumThrows)
                                       EXCEPT !.log = w.log])
                IN IF r.pc = "raised" THEN [w EXCEPT !.pc = "raised", !.log = r.log]
                   ELSE [w EXCEPT !.child = r.result, !.log = r.log]
      [] step = "focusable" ->
           IF Truthy(wd.focusable) THEN [w EXCEPT !.keyboard = "ON_DEMAND"] ELSE w
      [] step = "visible" ->
           [w EXCEPT !.visible = IF Truthy(visible) THEN "PRESENTED" ELSE "FALSE"]
      [] step = "setup" ->
           IF ~Truthy(wd.setup) THEN w
           ELSE IF wd.setup.t = "function" THEN [w EXCEPT !.setups = @ + 1]
           ELSE [w EXCEPT !.pc = "raised"]

\* the statement groups of Window in source order
WindowOrder ==
    <<"check", "create", "anchor", "margin", "layer", "exclusive", "monitor",
      "className", "style", "child", "focusable", "visible", "setup">>

RECURSIVE RunWinSteps(_, _, _, _)
RunWinSteps(w, wd, i, enumThrows) ==
    IF w.pc = "raised" THEN w
    ELSE IF i > Len(WindowOrder) THEN [w EXCEPT !.pc = "returned"]
    ELSE RunWinSteps(WinStep(w, wd, WindowOrder[i], enumThrows), wd, i + 1,
                     enumThrows)

\* Window(descriptor), run to its end
Window(wd, enumThrows) == RunWinSteps(NewWin(wd), wd, 1, enumThrows)

\* ---------------------------------------------------------------- inputs

Service(name) == [t |-> "service", s |-> name, n |-> 0]

TypeInputs ==
    {Str(k) : k \in {"label", "box", "stack", "scrollable", "slider",
                     "overlay", "entry", "progressbar", "nosuch", "toString",
                     "constructor", "__proto__"}}
      \cup {Fn("factory"), Fn("factoryNone"), Fn("factoryNull"), Undef}

SetupInputs == {Undef, Fn("setup"), Str("notfn")}

PropsInputs ==
    {NoProps,
     [NoProps EXCEPT !.orientation = Str("v")],
     [NoProps EXCEPT !.orientation = Num(5)],
     [NoProps EXCEPT !.orientation = Str("bogus")],
     [NoProps EXCEPT !.transition = Str("crossfade")],
     [NoProps EXCEPT !.transition = Num(5)],
     [NoProps EXCEPT !.hscroll = Num(1)],
     [NoProps EXCEPT !.label = Str("hi"), !.bogus = Str("x")]}

ClassNameInputs ==
    {CUndef, Chars(<<>>), Chars(<<"a", " ", " ", "b", "c", " ">>), CNum(1)}

FlagInputs ==
    {[hexpand |-> Undef, vexpand |-> Undef, sensitive |-> Undef, visible |-> Undef],
     [hexpand |-> Bool(TRUE), vexpand |-> Bool(FALSE), sensitive |-> Bool(FALSE),
      visible |-> Bool(FALSE)],
     [hexpand |-> Str("yes"), vexpand |-> Undef, sensitive |-> Num(1),
      visible |-> Str("no")]}

PropertiesInputs ==
    {NoList,
     List(<<[key |-> "k", value |-> "1"], [key |-> "j", value |-> "2"],
            [key |-> "k", value |-> "3"]>>)}

ConnectionsInputs ==
    {NoList,
     List(<<[src |-> Str("notify"), cb |-> "f", event |-> ""],
            [src |-> Num(1000), cb |-> "g", event |-> ""],
            [src |-> Service("svc"), cb |-> "h", event |-> "changed"],
            [src |-> Num(0), cb |-> "g", event |-> ""]>>)}

\* the four variants other than Structured
VariantInputs ==
    {RawDesc(Undef), RawDesc(Null), RawDesc(Str("")), RawDesc(Str("a")),
     RawDesc(Str("hello")), FactoryDesc(Fn("factory")),
     FactoryDesc(Fn("factoryNone")), LiveDesc}

\* every type with every leaf property bag and setup
TypeFamily ==
    {[BaseDesc(t) EXCEPT !.props = p, !.setup = su] :
        t \in TypeInputs, p \in PropsInputs, su \in SetupInputs}

\* the engine-level properties, on a registry type, a factory type and a
\* type found on the prototype
EngineFamily ==
    {[BaseDesc(t) EXCEPT
        !.className = cn, !.halign = ha, !.valign = va,
        !.hexpand = fl.hexpand, !.vexpand = fl.vexpand,
        !.sensitive = fl.sensitive, !.visible = fl.visible,
        !.tooltip = ts, !.style = ts,
        !.properties = pr, !.connections = co, !.setup = su] :
        t \in {Str("label"), Fn("factory"), Str("constructor")},
        cn \in ClassNameInputs,
        ha \in {Undef, Str("start"), Str("bogus")},
        va \in {Undef, Str("End")},
        fl \in FlagInputs,
        ts \in {Undef, Str("text")},
        pr \in PropertiesInputs, co \in ConnectionsInputs,
        su \in {Undef, Fn("setup")}}

SlotsOf(S, r) == [s \in Slots |-> IF s \in S THEN r ELSE "absent"]

\* every combination of populated slots
SlotFamily ==
    {[BaseDesc(Str("label")) EXCEPT !.slots = SlotsOf(S, "none")] :
        S \in SUBSET Slots}
      \cup
    {[BaseDesc(t) EXCEPT !.slots = SlotsOf(S, "none"), !.setup = su] :
        t \in {Str("label"), Str("slider"), Fn("factory"), Str("constructor")},
        S \in SUBSET {"onFocusEnter", "onFocusLeave", "onScroll", "onScrollUp",
                      "onButtonReleased"},
        su \in {Undef, Fn("setup")}}

\* the scroll slots with callbacks of every return kind, and each slot alone
ReturnFamily ==
    {[BaseDesc(Str("label")) EXCEPT
        !.slots["onScroll"] = a, !.slots["onScrollUp"] = b,
        !.slots["onScrollDown"] = c] :
        a \in Returns \cup {"absent"}, b \in Returns \cup {"absent"},
        c \in Returns \cup {"absent"}}
      \cup
    {[BaseDesc(Str("label")) EXCEPT !.slots[s] = r] : s \in Slots, r \in Returns}

\* an overlay descriptor carrying the two keys Overlay reads off it
Measured(d, measure, clip) ==
    [d EXCEPT !.props.measure = measure, !.props.clip = clip]

\* lists of child descriptors: strings, structured ones, one whose
\* construction throws, and a nested container
ChildLists ==
    {<<>>,
     <<RawDesc(Str("a")), RawDesc(Str("b"))>>,
     <<RawDesc(Str("b")), [BaseDesc(Str("label")) EXCEPT !.props.label = Str("hi")],
       RawDesc(Str("a"))>>,
     <<RawDesc(Str("a")), BaseDesc(Str("progressbar")), RawDesc(Str("b"))>>,
     <<[BaseDesc(Str("overlay")) EXCEPT
          !.props.overlays =
             Arr(<<Measured(BaseDesc(Str("label")), Bool(TRUE), Undef)>>)]>>}

OverlayLists ==
    {<<>>,
     <<RawDesc(Str("a")), BaseDesc(Str("label"))>>,
     <<Measured(BaseDesc(Str("label")), Bool(TRUE), Bool(FALSE)),
       RawDesc(Str("a")),
       Measured(BaseDesc(Fn("factory")), Undef, Str("yes"))>>,
     <<Measured(BaseDesc(Str("label")), Bool(FALSE), Undef),
       BaseDesc(Str("progressbar")),
       Measured(BaseDesc(Str("label")), Bool(TRUE), Undef)>>}

\* boxes and overlays with their lists
ContainerFamily ==
    {[BaseDesc(Str("box")) EXCEPT !.props.orientation = o,
                                  !.props.children = Arr(k), !.setup = su] :
        o \in {Undef, Str("v"), Str("bogus")}, k \in ChildLists,
        su \in {Undef, Fn("setup")}}
      \cup
    {[BaseDesc(Str("overlay")) EXCEPT !.props.overlays = Arr(k), !.setup = su] :
        k \in OverlayLists, su \in {Undef, Fn("setup")}}
      \cup
    {[BaseDesc(t) EXCEPT !.props.children = Arr(<<RawDesc(Str("a"))>>)] :
        t \in {Str("label"), Str("overlay"), Fn("factory")}}

\* entries with the two hooks absent, a function, a command or ''
EntryFamily ==
    {[BaseDesc(Str("entry")) EXCEPT !.props.onChange = c, !.props.onAccept = a] :
        c \in {Undef, Fn("change"), Chars(<<"echo", "{}", "{}">>), Chars(<<>>)},
        a \in {Undef, Fn("accept"), Chars(<<"run", "{}">>)}}

\* the texts an entry's buffer takes
Texts == {"", "hi"}

Inputs ==
    VariantInputs \cup TypeFamily \cup EngineFamily \cup SlotFamily
      \cup ReturnFamily \cup ContainerFamily \cup EntryFamily

\* The toolkit's answer to an undefined enum value is asked only where a
\* descriptor holds an enum token.
EnvInputs(d) ==
    IF d.halign.t = "string" \/ d.valign.t = "string"
         \/ d.props.orientation = Str("bogus")
      THEN BOOLEAN ELSE {TRUE}

\* sequences over 0..MaxMargin of length 0..MaxMarginLen
RECURSIVE SeqsUpTo(_)
SeqsUpTo(len) ==
    IF len = 0 THEN {<<>>}
    ELSE LET shorter == SeqsUpTo(len - 1)
         IN shorter \cup {Append(q, v) : q \in {x \in shorter : Len(x) = len - 1},
                                         v \in 0..MaxMargin}

MarginInputs ==
    {MUndef} \cup {MNum(k) : k \in 0..MaxMargin}
      \cup {MArr(q) : q \in SeqsUpTo(MaxMarginLen)}

WindowInputs ==
    {[BaseWin EXCEPT !.margin = m] : m \in MarginInputs}
      \cup
    {[BaseWin EXCEPT !.anchor = a, !.layer = l, !.child = c, !.setup = su,
                     !.className = cn] :
        a \in {CUndef, Chars(<<"t", "o", "p", " ", "l", "e", "f", "t">>),
               Chars(<<" ", "t", "o", "p", " ", "x">>)},
        l \in {Undef, Str("overlay"), Str("bogus"), Num(1)},
        c \in {NoChild, Child(RawDesc(Str("a"))), Child(RawDesc(Undef)),
               Child(BaseDesc(Str("progressbar")))},
        su \in SetupInputs,
        cn \in {CUndef, Chars(<<"a", " ", "b">>)}}

\* the descriptors whose returned object the caller goes on to restyle
ToggleSubjects ==
    {RawDesc(Str("a")), FactoryDesc(Fn("factory")),
     [BaseDesc(Str("label")) EXCEPT
        !.className = Chars(<<"a", " ", " ", "b", "c", " ">>)]}

\* the class names and the `condition` arguments of the caller's calls
ToggleNames == {<<"a">>, <<"x">>}

ToggleConditions == {Bool(TRUE), Bool(FALSE), Undef}

\* --------------------------------------------------------- state machine

VARIABLES frame, emitted, win

vars == <<frame, emitted, win>>

\* no Widget call at hand
Idle == [pc |-> "idle"]

Init == frame = Idle /\ emitted = NoEmission /\ win = NoWin

\* a caller invokes Widget(params)
Call ==
    /\ frame.pc = "idle" /\ win.pc = "none"
    /\ \E d \in Inputs : \E e \in EnvInputs(d) : frame' = NewFrame(d, e)
    /\ UNCHANGED <<emitted, win>>

DoResolve ==
    /\ frame.pc = "resolve"
    /\ frame' = Resolve(frame)
    /\ UNCHANGED <<emitted, win>>

DoBuild ==
    /\ frame.pc = "build"
    /\ frame' = Build(frame)
    /\ UNCHANGED <<emitted, win>>

DoParseParams ==
    /\ frame.pc = "parseParams"
    /\ frame' = Pass(frame)
    /\ UNCHANGED <<emitted, win>>

DoParseEventListeners ==
    /\ frame.pc = "parseEventListeners"
    /\ frame' = Pass(frame)
    /\ UNCHANGED <<emitted, win>>

\* The toolkit delivers an event to one controller of the returned object.
\* Handlers keep nothing between events, so one event per call is followed.
Emit ==
    /\ frame.pc = "returned" /\ frame.result.kind = "live"
    /\ emitted = NoEmission
    /\ \E ev \in Events : \E ctl \in 1..frame.result.ctrl[ev.family] :
          emitted' = Emission(frame.result, ev, ctl)
    /\ UNCHANGED <<frame, win>>

\* The toolkit emits a signal of the returned entry: the buffer's text has
\* changed, or the entry was activated. The handlers keep nothing between
\* signals, so one signal per call is followed.
EntrySignal ==
    /\ frame.pc = "returned" /\ frame.result.kind = "live"
    /\ frame.dispatch = <<>>
    /\ \E i \in 1..Len(frame.result.hooks) : \E text \in Texts :
          frame' = [frame EXCEPT
                      !.dispatch = <<EntryHandler(frame.result.hooks[i], text)>>]
    /\ UNCHANGED <<emitted, win>>

\* the caller calls toggleClassName on the returned object
Toggle ==
    /\ frame.pc = "returned" /\ frame.result.kind = "live"
    /\ frame.d \in ToggleSubjects
    /\ \E cn \in ToggleNames : \E cond \in ToggleConditions :
          frame' = [frame EXCEPT
                      !.result = toggleClassName(@, cn, cond),
                      !.toggle = <<[name |-> cn, condition |-> cond,
                                    before |-> frame.result.classes]>>]
    /\ UNCHANGED <<emitted, win>>

\* a caller invokes Window(descriptor)
CallWindow ==
    /\ frame.pc = "idle" /\ win.pc = "none"
    /\ \E wd \in WindowInputs : \E e \in BOOLEAN : win' = Window(wd, e)
    /\ UNCHANGED <<frame, emitted>>

\* the caller is done with the result; the next call starts afresh
Finish ==
    /\ Done(frame) \/ win.pc \in {"returned", "raised"}
    /\ frame' = Idle /\ emitted' = NoEmission /\ win' = NoWin

Next ==
    \/ Call
    \/ DoResolve
    \/ DoBuild
    \/ DoParseParams
    \/ DoParseEventListeners
    \/ Emit
    \/ Toggle
    \/ EntrySignal
    \/ CallWindow
    \/ Finish

Spec == Init /\ [][Next]_vars

\* ---------------------------------------------------------------- claims

\* the call at hand is for a structured descriptor (an object with keys)
Structured == frame.pc # "idle" /\ frame.d.variant = "object"

\* the returned object is as the engine returned it: the caller has not
\* restyled it yet
Untouched == frame.toggle = <<>>

\* the error diagnostics of the call at hand
Errors == SelectSeq(frame.log, LAMBDA e : e.sink = "error")

\* the structured descriptor's type is a string under which the registry
\* holds no leaf constructor of its own
UnregisteredType ==
    Structured /\ frame.d.type.t = "string" /\ frame.d.type.s \notin OwnKeys

\* C1: for every structured descriptor whose type is a string that is not a
\* key of the registry, Widget never raises, does not run the property or
\* event pass, and returns a placeholder label naming the type with no
\* property applied, having emitted exactly one error diagnostic that names
\* the type.
C1_UnknownTypeYieldsPlaceholder ==
    UnregisteredType =>
      /\ frame.pc \in {"resolve", "build", "returned"}
      /\ frame.setups = <<>>
      /\ frame.pc = "returned" =>
           /\ frame.result =
                GtkLabel(Text("", frame.d.type.s, " doesn't exist"))
           /\ Errors = <<Diag("error", "There is no widget with type",
                              frame.d.type.s)>>

\* C1 holds of the keys that are on no prototype either: reached by "nosuch"
C1_GenuinelyUnknownReached ==
    /\ UnregisteredType /\ frame.pc = "returned"
    /\ frame.d.type.s \notin ObjectPrototypeKeys
    /\ Len(Errors) = 1

\* C2: no exception crosses the construction boundary: whatever the
\* descriptor, Widget does not raise, and what it returns is a live object.
C2_NoExceptionCrossesBoundary ==
    /\ frame.pc # "raised"
    /\ (Structured /\ frame.pc = "returned") => frame.result.kind = "live"

\* C3: for every string descriptor s, the empty string included, Widget
\* returns a label whose text is s and emits no diagnostic.
C3_StringYieldsLabel ==
    (Done(frame) /\ frame.d.variant = "string" /\ Untouched) =>
      /\ frame.pc = "returned"
      /\ frame.result = GtkLabel(Text("", frame.d.raw.s, ""))
      /\ frame.log = <<>>

\* the object of the call at hand went through the property pass: a live
\* object was built for a structured descriptor and parseParams ended
PropertiesPassed ==
    /\ Structured /\ frame.pc \in {"parseEventListeners", "returned"}
    /\ frame.widget.kind = "live"

\* the scroll controller a slider's own constructor attaches
OwnControllers(d, fam) ==
    IF d.type = Str("slider") /\ fam = "scroll" THEN 1 ELSE 0

\* C4 as stated: setup fires strictly last, after every event controller
\* requested by the same descriptor has been attached to the object.
C4_SetupAfterControllers ==
    Structured =>
      \A i \in 1..Len(frame.setups) : \A fam \in Families :
         Populated(frame.d.slots, fam) => frame.setups[i].ctrl[fam] >= 1

\* C4 amended: the steps happen in the order build, properties and
\* connections with setup as their last step, then event controllers:
\* setup has run by the time the event pass starts, and the object it was
\* given carried none of the controllers the descriptor requests; these are
\* attached after it, before the return.
C4_SetupBeforeControllers ==
    Structured =>
      /\ \A i \in 1..Len(frame.setups) : \A fam \in Families :
            frame.setups[i].ctrl[fam] = OwnControllers(frame.d, fam)
      /\ frame.pc = "parseParams" =>
            /\ frame.setups = <<>>
            /\ \A fam \in Families :
                  frame.widget.kind = "live" =>
                     frame.widget.ctrl[fam] = OwnControllers(frame.d, fam)
      /\ (frame.pc = "parseEventListeners" /\ frame.d.setup.t = "function") =>
            /\ Len(frame.setups) = 1
            /\ frame.setups[1] = frame.widget
      /\ (frame.pc = "returned" /\ frame.widget.kind = "live") =>
            \A fam \in Families :
               Populated(frame.d.slots, fam) =>
                  frame.result.ctrl[fam] > OwnControllers(frame.d, fam)

\* a call with a setup function and populated slots has returned its object
C4_Witness ==
    /\ Structured /\ frame.pc = "returned" /\ frame.widget.kind = "live"
    /\ Len(frame.setups) = 1
    /\ Populated(frame.d.slots, "focus") /\ Populated(frame.d.slots, "scroll")
    /\ frame.result.ctrl["focus"] = 1
    /\ frame.setups[1].ctrl["focus"] = 0

\* what the declarative configuration of d asks of the object o
Configured(d, o) ==
    /\ {"setStyle", "toggleClassName"} \subseteq o.methods
    /\ d.className = Chars(<<"a", " ", " ", "b", "c", " ">>) =>
          o.classes = {<<"a">>, <<"b", "c">>}
    /\ d.className.t = "string" =>
          \A i \in 1..Len(Split(d.className.cs)) :
             Split(d.className.cs)[i] # <<>> =>
                Split(d.className.cs)[i] \in o.classes
    /\ d.halign = Str("start") => o.halign = "START"
    /\ d.valign = Str("End") => o.valign = "END"
    /\ d.hexpand.t = "boolean" => o.hexpand = (IF d.hexpand.n = 1 THEN "TRUE" ELSE "FALSE")
    /\ d.vexpand.t = "boolean" => o.vexpand = (IF d.vexpand.n = 1 THEN "TRUE" ELSE "FALSE")
    /\ d.sensitive.t = "boolean" =>
          o.sensitive = (IF d.sensitive.n = 1 THEN "TRUE" ELSE "FALSE")
    /\ d.visible.t = "boolean" =>
          o.visible = (IF d.visible.n = 1 THEN "TRUE" ELSE "FALSE")
    /\ d.visible.t = "undefined" => o.visible = "TRUE"
    /\ d.tooltip.t = "string" => o.tooltip = <<d.tooltip.s>>
    /\ d.style.t = "string" =>
          o.styles = <<[selector |-> "*", body |-> d.style.s, priority |-> "USER"]>>
    /\ d.properties.present =>
          \A i \in 1..Len(d.properties.items) :
             (\A j \in (i + 1)..Len(d.properties.items) :
                 d.properties.items[j].key # d.properties.items[i].key)
               => [prefix |-> "_", key |-> d.properties.items[i].key,
                   value |-> d.properties.items[i].value] \in o.priv
    /\ d.connections.present => Len(o.conns) = Len(d.connections.items)

\* C5: when a structured descriptor has a setup function, the property pass
\* over its built object invokes it exactly once, with that object, and the
\* object then already carries every className token, alignment, flag,
\* tooltip, style, properties pair and connection of the descriptor; when
\* setup is absent or not a function, nothing is invoked.
C5_SetupSeesConfiguredObject ==
    Structured =>
      /\ frame.d.setup.t # "function" => frame.setups = <<>>
      /\ Len(frame.setups) <= 1
      /\ \A i \in 1..Len(frame.setups) :
            frame.setups[i].kind = "live" => Configured(frame.d, frame.setups[i])
      /\ (PropertiesPassed /\ frame.d.setup.t = "function") =>
            /\ Len(frame.setups) = 1
            /\ frame.pc = "parseEventListeners" => frame.setups[1] = frame.widget

\* setup has been invoked on an object with classes, an alignment, flags, a
\* tooltip, a style, properties and connections
C5_Witness ==
    /\ PropertiesPassed /\ Len(frame.setups) = 1
    /\ frame.setups[1].classes = {<<"a">>, <<"b", "c">>}
    /\ frame.setups[1].halign = "START"
    /\ frame.setups[1].hexpand = "TRUE"
    /\ frame.setups[1].tooltip # <<>> /\ frame.setups[1].styles # <<>>
    /\ Cardinality(frame.setups[1].priv) = 2
    /\ Len(frame.setups[1].conns) = 4

\* an event has been delivered to a controller of the returned object
Delivered == emitted # NoEmission

\* the number of times the callback of a slot was invoked for the event
Invocations(slot) ==
    Len(SelectSeq(emitted.runs, LAMBDA r : r.slot = slot /\ r.invoked))

\* the handler signalled continue: it handed the controller the value a
\* handler with a non-matching filter hands it
SignalsContinue(r) == r.ret = NoMatch

\* the event at hand is a scroll event delivered to the controller the
\* descriptor's own scroll slots were connected to
ScrollDelivered ==
    /\ Delivered /\ emitted.ev.family = "scroll"
    /\ emitted.ctl = frame.result.ctrl["scroll"]
    /\ Populated(frame.d.slots, "scroll")

\* C6: direction-specific scroll slots never fire on the non-matching
\* direction: with dy = -1, dx = 0 onScrollDown is not invoked; with dy = 1,
\* dx = 0 onScrollUp is not invoked; with dy = 0, dx = -1 a first-connected
\* onScrollUp is invoked; and for every scroll event, opposite signs on the
\* two axes included, onScrollUp and onScrollDown are never both invoked.
C6_ScrollDirectionsExclusive ==
    ScrollDelivered =>
      LET dx == emitted.ev.dx
          dy == emitted.ev.dy
      IN /\ (dy = -1 /\ dx = 0) => Invocations("onScrollDown") = 0
         /\ (dy = 1 /\ dx = 0) => Invocations("onScrollUp") = 0
         /\ (dy = 0 /\ dx = -1 /\ frame.d.slots["onScroll"] = "absent"
               /\ frame.d.slots["onScrollUp"] # "absent")
              => Invocations("onScrollUp") = 1
         /\ ~(Invocations("onScrollUp") >= 1 /\ Invocations("onScrollDown") >= 1)

\* the direction or press/release condition of a slot, as the descriptor's
\* author reads it
FilterPasses(slot, ev) ==
    /\ slot = "onScrollUp" => (ev.dx < 0 \/ ev.dy < 0)
    /\ slot = "onScrollDown" => (ev.dx > 0 \/ ev.dy > 0)
    /\ slot = "onButtonPressed" => ev.etype = "BUTTON_PRESS"
    /\ slot = "onButtonReleased" => ev.etype = "BUTTON_RELEASE"

OneDirection(ev) ==
    FilterPasses("onScrollUp", ev) # FilterPasses("onScrollDown", ev)

\* C8: when onScroll, onScrollUp and onScrollDown all hold callbacks that
\* return nothing, then for every scroll event in one direction the onScroll
\* callback and the matching directional callback are each invoked exactly
\* once and the non-matching directional callback is not invoked.
C8_GenericAndDirectionalCoexist ==
    (/\ ScrollDelivered
     /\ \A s \in {"onScroll", "onScrollUp", "onScrollDown"} :
           frame.d.slots[s] = "none"
     /\ OneDirection(emitted.ev))
    => \A s \in {"onScroll", "onScrollUp", "onScrollDown"} :
          Invocations(s) = IF FilterPasses(s, emitted.ev) THEN 1 ELSE 0

\* a structured descriptor's call has returned the object it built
BuiltReturned ==
    Structured /\ frame.pc = "returned" /\ frame.widget.kind = "live"

\* the controllers of a family the descriptor's own slots ask for
Requested(d, fam) == IF Populated(d.slots, fam) THEN 1 ELSE 0

\* C9 as stated: each controller family has exactly one controller on the
\* live object if at least one of its slots is populated, none otherwise.
C9_OneControllerPerFamily ==
    BuiltReturned =>
      \A fam \in Families : frame.result.ctrl[fam] = Requested(frame.d, fam)

\* C9 amended: the event pass attaches, per family, exactly one controller
\* if at least one slot of the family is populated and none otherwise, on
\* top of the controllers the leaf constructor attached itself (a slider
\* comes with one scroll controller of its own); the attached controller
\* carries one handler for every populated slot of its family.
C9_OneControllerPerFamilyAdded ==
    BuiltReturned =>
      \A fam \in Families :
         /\ frame.result.ctrl[fam] =
               OwnControllers(frame.d, fam) + Requested(frame.d, fam)
         /\ \A s \in Slots :
               (frame.d.slots[s] # "absent"
                  /\ \E i \in 1..Len(FamilySlots(fam)) : FamilySlots(fam)[i].slot = s)
               => \E i \in 1..Len(frame.result.handlers) :
                     /\ frame.result.handlers[i].slot = s
                     /\ frame.result.handlers[i].family = fam
                     /\ frame.result.handlers[i].ctl = frame.result.ctrl[fam]

\* a slider with both focus slots and a scroll slot has been returned: one
\* focus controller, and a second scroll controller next to its own
C9_Witness ==
    /\ BuiltReturned /\ frame.d.type = Str("slider")
    /\ frame.d.slots["onFocusEnter"] # "absent"
    /\ frame.d.slots["onFocusLeave"] # "absent"
    /\ frame.d.slots["onScroll"] # "absent"
    /\ frame.result.ctrl["focus"] = 1
    /\ frame.result.ctrl["scroll"] = 2

\* the margins the CSS shorthand gives for a sequence of numbers
CssMargins(q) ==
    CASE Len(q) = 1 -> <<q[1], q[1], q[1], q[1]>>
      [] Len(q) = 2 -> <<q[1], q[2], q[1], q[2]>>
      [] Len(q) = 3 -> <<q[1], q[2], q[3], q[2]>>
      [] Len(q) = 4 -> <<q[1], q[2], q[3], q[4]>>
      [] OTHER -> <<>>

\* the margin set on an edge by the calls made, last call winning; empty
\* when no call set it
EdgeMargin(calls, edge) ==
    LET on == SelectSeq(calls, LAMBDA c : c.edge = edge)
    IN IF on = <<>> THEN <<>> ELSE <<on[Len(on)].value>>

\* C10: window margin expansion follows the CSS shorthand: [a], [a,b],
\* [a,b,c] and [a,b,c,d] set top, right, bottom and left as CSS does; a
\* scalar n behaves exactly as [n] for every number n, 0 included; a
\* sequence of any other length sets no margin and reports no error.
C10_MarginFollowsCssShorthand ==
    (win.pc = "returned" /\ win.d.margin.t \in {"number", "array"}) =>
      LET q == IF win.d.margin.t = "number" THEN <<win.d.margin.n>>
               ELSE win.d.margin.items
          css == CssMargins(q)
      IN /\ win.log = <<>>
         /\ IF css = <<>> THEN win.margins = <<>>
            ELSE /\ EdgeMargin(win.margins, "TOP") = <<css[1]>>
                 /\ EdgeMargin(win.margins, "RIGHT") = <<css[2]>>
                 /\ EdgeMargin(win.margins, "BOTTOM") = <<css[3]>>
                 /\ EdgeMargin(win.margins, "LEFT") = <<css[4]>>

\* the leaf properties the constructor behind a type destructures by name;
\* a factory type destructures none
RecognizedBy(type) ==
    IF type.t # "string" THEN {}
    ELSE CASE type.s = "label" -> {"label"}
           [] type.s = "box" -> {"orientation", "children"}
           [] type.s = "slider" -> {"orientation"}
           [] type.s = "overlay" -> {"overlays"}
           [] type.s = "entry" -> {"onChange", "onAccept"}
           [] type.s = "stack" -> {"transition"}
           [] type.s = "scrollable" -> {"hscroll"}
           [] OTHER -> {}

\* the restcheck diagnostics of the call at hand that name a key
Reported(key) ==
    SelectSeq(frame.log, LAMBDA e : e.sink = "restcheck" /\ e.msg = key)

\* the object of the call at hand came from a factory type or from a leaf
\* constructor the registry holds, and construction went on with it
LeafBuilt ==
    /\ Structured
    /\ frame.pc \in {"parseParams", "parseEventListeners", "returned"}
    /\ frame.widget.kind = "live"
    /\ frame.d.type.t = "function" \/ frame.d.type.s \in OwnKeys

\* C11: unrecognized keys are never silently ignored: for every structured
\* descriptor, whether its type is a registry key or a factory function,
\* each key that the leaf constructor does not recognize is reported by
\* restcheck exactly once, tagged with the widget type, and no key the
\* constructor recognizes is reported.
C11_UnrecognizedKeysReported ==
    LeafBuilt =>
      \A k \in PropKeys :
         IF frame.d.props[k].t # "undefined" /\ k \notin RecognizedBy(frame.d.type)
           THEN /\ Len(Reported(k)) = 1
                /\ Reported(k)[1].ctx = TemplateText(frame.d.type)
           ELSE Reported(k) = <<>>

\* the two instance methods the engine attaches
Helpers == {"setStyle", "toggleClassName"}

\* C12 as stated: every live object returned by Widget or Window, for every
\* descriptor variant and for the error placeholders, carries the instance
\* methods setStyle and toggleClassName.
C12_EveryObjectCarriesHelpers ==
    /\ (frame.pc = "returned" /\ frame.result.kind = "live") =>
          Helpers \subseteq frame.result.methods
    /\ win.pc = "returned" => Helpers \subseteq win.methods

\* C12 amended: the helpers are attached by the property pass and by Window
\* only. The object Widget returns for a structured descriptor whose object
\* was built, and the window Window returns, carry setStyle and
\* toggleClassName; a text label, a factory's result, a live object passed
\* through and an error placeholder are returned with no method attached.
C12_HelpersOnConfiguredObjects ==
    /\ BuiltReturned => Helpers \subseteq frame.result.methods
    /\ (frame.pc = "returned" /\ ~BuiltReturned /\ frame.result.kind = "live") =>
          /\ frame.result.methods = {}
          /\ (frame.d.variant = "function" /\ Untouched) =>
                frame.result = CallFactory(frame.d.type)
          /\ (frame.d.variant = "widget" /\ Untouched) =>
                frame.result = ExistingWidget
    /\ win.pc = "returned" => win.methods = Helpers

\* a structured descriptor with a factory type has returned its object,
\* helpers attached
C12_Witness ==
    /\ BuiltReturned /\ frame.d.type.t = "function"
    /\ frame.result.methods = Helpers

\* the call at hand is for a descriptor that is a function or a live object
Bypassing == frame.pc # "idle" /\ frame.d.variant \in {"function", "widget"}

\* C16: Factory and LiveObject descriptors bypass all further stages: a
\* function descriptor is invoked exactly once and its result returned as
\* is, a live object is returned the very same; in both cases no property,
\* helper method, connection or event controller is applied, no setup is
\* invoked, no diagnostic is emitted, and neither pass is entered.
C16_FactoryAndLiveBypass ==
    Bypassing =>
      /\ frame.pc \in {"resolve", "returned"}
      /\ frame.log = <<>> /\ frame.setups = <<>>
      /\ frame.pc = "resolve" => frame.calls = 0
      /\ (frame.pc = "returned" /\ frame.d.variant = "function") =>
            /\ frame.calls = 1
            /\ Untouched => frame.result = CallFactory(frame.d.type)
      /\ (frame.pc = "returned" /\ frame.d.variant = "widget") =>
            /\ frame.calls = 0
            /\ Untouched => frame.result = ExistingWidget

\* a function descriptor has returned the object its function made
C16_Witness ==
    /\ Bypassing /\ frame.pc = "returned" /\ frame.d.variant = "function"
    /\ frame.calls = 1 /\ frame.result.kind = "live"

\* the registration a Connection Triple asks for, by the kind of its source
Registers(reg, c) ==
    /\ reg.cb = c.cb
    /\ c.src.t = "string" => reg.via = "signal" /\ reg.name = c.src.s
    /\ c.src.t = "number" => reg.via = "interval" /\ reg.period = c.src.n
    /\ c.src.t \notin {"string", "number"} =>
          reg.via = "service" /\ reg.name = c.src.s /\ reg.event = c.event

\* C18: each Connection Triple produces exactly one registration, chosen by
\* the kind of its source and made in list order: a string source one signal
\* connection, a numeric source (0 included) one interval call, any other
\* source one connectWidget call with the event name; none is registered
\* twice or skipped, and nothing is registered before the property pass.
C18_OneRegistrationPerTriple ==
    Structured =>
      /\ (frame.pc = "parseParams" /\ frame.widget.kind = "live") =>
            frame.widget.conns = <<>>
      /\ PropertiesPassed =>
            /\ Len(frame.widget.conns) = Len(frame.d.connections.items)
            /\ \A i \in 1..Len(frame.d.connections.items) :
                  Registers(frame.widget.conns[i], frame.d.connections.items[i])

\* a signal, two intervals (one of period 0) and a service connection have
\* been registered in that order
C18_Witness ==
    /\ PropertiesPassed /\ Len(frame.widget.conns) = 4
    /\ frame.widget.conns[1].via = "signal"
    /\ frame.widget.conns[3].via = "service"
    /\ frame.widget.conns[4].via = "interval" /\ frame.widget.conns[4].period = 0

\* the caller has toggled a class on the returned object
Toggled == frame.pc = "returned" /\ frame.toggle # <<>>

C13_DescriptorNotMutated ==
    (frame.pc # "idle") => frame.caller = frame.d

\* the objects the engine builds for a list of descriptors, each on its own
ObjectsOf(items, enumThrows) ==
    [i \in 1..Len(items) |-> RunWidget(NewFrame(items[i], enumThrows)).result]

\* every descriptor of the list builds an object
AllBuild(items, enumThrows) ==
    \A i \in 1..Len(items) :
       LET r == RunWidget(NewFrame(items[i], enumThrows))
       IN r.pc = "returned" /\ r.result.kind = "live"

\* the call at hand is for a box with a list of children
BoxWithChildren ==
    /\ Structured /\ frame.d.type = Str("box")
    /\ frame.d.props.children.t = "array"

\* C15: a box descriptor with a children list of n descriptors, each of
\* which builds an object, yields a container with exactly n children, the
\* i-th being the object built from the i-th descriptor; orientation "v"
\* yields a vertical container, no orientation a horizontal one.
C15_BoxChildrenInOrder ==
    (BoxWithChildren /\ AllBuild(frame.d.props.children.items, frame.enumThrows)
       /\ frame.d.props.orientation \in {Undef, Str("v")}) =>
      /\ frame.pc # "raised"
      /\ frame.pc \in {"parseParams", "parseEventListeners", "returned"} =>
            /\ frame.widget.gtype = "Box"
            /\ frame.widget.children =
                  ObjectsOf(frame.d.props.children.items, frame.enumThrows)
            /\ frame.widget.orientation =
                  IF frame.d.props.orientation = Str("v") THEN "VERTICAL"
                  ELSE "HORIZONTAL"
      /\ (frame.pc = "returned" /\ Untouched) =>
            frame.result.children = frame.widget.children

\* the box of { type: "box", orientation: "v", children: ["a", "b"] } has
\* been returned: vertical, text nodes "a" then "b"
C15_Witness ==
    /\ BoxWithChildren /\ frame.pc = "returned"
    /\ frame.d.props.orientation = Str("v")
    /\ frame.result.orientation = "VERTICAL"
    /\ frame.result.children =
          <<GtkLabel(Text("", "a", "")), GtkLabel(Text("", "b", ""))>>

\* a warning or error diagnostic has been reported
Diagnosed(log) ==
    \E i \in 1..Len(log) : log[i].sink \in {"warning", "error"}

\* a string that names no member of an enum, given the member names in
\* upper case
UnknownToken(v, members) == v.t = "string" /\ toUpperCase(v.s) \notin members

\* C17 for the object's alignment: an unknown halign token is reported and
\* the alignment stays at its default
C17_Align ==
    (PropertiesPassed /\ UnknownToken(frame.d.halign, AlignMembers)) =>
      /\ frame.widget.halign = "DEFAULT"
      /\ Diagnosed(frame.log)

\* C17 for a leaf's orientation: an unknown token is reported, the box is
\* built with the default orientation and construction goes on
C17_Orientation ==
    (Structured /\ frame.d.type \in {Str("box"), Str("slider")}
       /\ UnknownToken(frame.d.props.orientation,
                       {"V", "H", "VERTICAL", "HORIZONTAL"})) =>
      /\ frame.pc # "raised"
      /\ frame.pc \in {"parseParams", "parseEventListeners", "returned"} =>
            /\ frame.widget.orientation = "HORIZONTAL"
            /\ Diagnosed(frame.log)

\* C17 for the window: an unknown layer or anchor edge is reported, layer
\* and anchors stay as they were and the remaining steps run
C17_Window ==
    /\ (win.pc # "none" /\ UnknownToken(win.d.layer, LayerMembers)) =>
          /\ win.pc = "returned"
          /\ win.layer = "DEFAULT"
          /\ Diagnosed(win.log)
    /\ (win.pc # "none" /\ win.d.anchor.t = "string"
          /\ \E i \in 1..Len(Split(Trim(win.d.anchor.cs))) :
                UpperChars(Split(Trim(win.d.anchor.cs))[i]) \notin EdgeMembers
          /\ ~UnknownToken(win.d.layer, LayerMembers)
          /\ win.d.layer.t \in {"string", "undefined"}) =>
          /\ win.pc = "returned"
          /\ \A i \in 1..Len(win.anchors) : win.anchors[i] \in EdgeMembers
          /\ Diagnosed(win.log)

\* C17: for every enum-valued string property (halign, valign, a leaf's
\* orientation, a window's anchor edges and layer), a string that maps to no
\* enum member causes a diagnostic, leaves the attribute at its default with
\* no value applied, and the remaining construction steps still execute.
C17_UnknownEnumTokenReported == C17_Align /\ C17_Orientation /\ C17_Window

\* the entry's text-change signal has been handled
ChangeHandled ==
    /\ frame.pc = "returned" /\ frame.dispatch # <<>>
    /\ frame.dispatch[1].slot = "onChange"

\* C19: how the Entry's onChange slot is dispatched depends only on onChange:
\* a function is called with (entry, text) on every text change, a non-empty
\* string is run as a command with every `{}` replaced by the text, whatever
\* the onAccept slot holds.
C19_OnChangeByOwnKind ==
    ChangeHandled =>
      LET onChange == frame.d.props.onChange
          did == frame.dispatch[1]
      IN /\ onChange.t = "function" =>
               did.via = "callback" /\ did.fn = onChange.s
         /\ onChange.t = "string" =>
               /\ did.via = "runCmd"
               /\ did.cmd = Replace(onChange.cs, did.text)

====
